---- MODULE Spec2Model ----
(***************************************************************************)
(* Model of the onboarding server: the in-memory store (server/storage.ts) *)
(* and the routes that upload a data file and analyze it (routes); and of  *)
(* the onboarding page of the client with its upload and analyze steps.    *)
(*                                                                         *)
(* JavaScript strings are sequences of one-character strings, so that      *)
(* toLowerCase, includes, endsWith, replace and the regular expressions    *)
(* are computed character by character.  A JavaScript value is a record    *)
(* [t, s, n]: t is the typeof tag, s the characters of a string, n the     *)
(* integer of a number.                                                    *)
(***************************************************************************)
EXTENDS Integers, Sequences, FiniteSets, TLC

VARIABLES
    users,            \* MemStorage.users: sequence of [k, v] entries in insertion order
    onboardingData,   \* MemStorage.onboardingData: sequence of [k, v] entries
    uploadedFiles,    \* MemStorage.uploadedFiles: sequence of [k, v] entries
    currentFileId,    \* MemStorage.currentFileId
    now,              \* the wall clock read by new Date(), in milliseconds
    lastOp,           \* the route that handled the latest request
    response,         \* the body of the latest response of POST /api/analyze/data
    prevResponse,     \* the body of the analyze response before it, since the last upload
    analyzedId,       \* the id of the file the latest analyze request read (0: none)
    currentStep,      \* useOnboarding: currentStep, an index into steps from 0
    clientData,       \* useOnboarding: onboardingData, the record last returned by a save
    uploadedHere,     \* UploadStep: uploadedFiles.length > 0
    analysisStatus,   \* AnalyzeStep: analysisStatus ("unmounted": the step is not shown)
    analyzePending,   \* AnalyzeStep: analyzeDataMutation.isPending
    orphans,          \* analyze requests in flight whose AnalyzeStep was unmounted
    primaryKpi,       \* ObjectivesStep: primaryKpi
    secondaryKpis,    \* ObjectivesStep: secondaryKpis
    integrations,     \* MemStorage.integrations: sequence of [k, v] entries
    currentIntegrationId, \* MemStorage.currentIntegrationId
    result,           \* the latest call of a MemStorage method: what it returned or threw
    calls             \* the saveOnboardingStep calls in progress, each at an await

serverVars == <<users, onboardingData, uploadedFiles, currentFileId, now, lastOp,
                response, prevResponse, analyzedId>>

clientVars == <<currentStep, clientData, uploadedHere, analysisStatus, analyzePending,
                orphans>>

objectivesVars == <<primaryKpi, secondaryKpis>>

storeVars == <<integrations, currentIntegrationId, result, calls>>

vars == <<users, onboardingData, uploadedFiles, currentFileId, now, lastOp,
          response, prevResponse, analyzedId, currentStep, clientData, uploadedHere,
          analysisStatus, analyzePending, orphans, primaryKpi, secondaryKpis,
          integrations, currentIntegrationId, result, calls>>

----------------------------------------------------------------------------
(* Bounds of the model *)

MaxFiles == 2
MaxTime == 1
MaxWideRows == 2
MaxRows == 6
MaxOrphans == 1
MaxCalls == 3
MaxUsers == 2
MaxRecords == 2
MaxIntegrations == 2

----------------------------------------------------------------------------
(* Strings *)

UpperToLower ==
    [A |-> "a", B |-> "b", C |-> "c", D |-> "d", E |-> "e", F |-> "f", G |-> "g",
     H |-> "h", I |-> "i", J |-> "j", K |-> "k", L |-> "l", M |-> "m", N |-> "n",
     O |-> "o", P |-> "p", Q |-> "q", R |-> "r", S |-> "s", T |-> "t", U |-> "u",
     V |-> "v", W |-> "w", X |-> "x", Y |-> "y", Z |-> "z"]

UpperChars == DOMAIN UpperToLower
LowerChars == {UpperToLower[c] : c \in UpperChars}
DigitChars == {"0", "1", "2", "3", "4", "5", "6", "7", "8", "9"}
WhiteSpaceChars == {" ", "\t", "\n", "\r"}

\* String.prototype.toLowerCase
toLowerCase(s) ==
    [i \in 1..Len(s) |-> IF s[i] \in UpperChars THEN UpperToLower[s[i]] ELSE s[i]]

\* String.prototype.includes
includes(s, sub) ==
    \E i \in 0..(Len(s) - Len(sub)) : SubSeq(s, i + 1, i + Len(sub)) = sub

\* String.prototype.endsWith
endsWith(s, suffix) ==
    /\ Len(suffix) <= Len(s)
    /\ SubSeq(s, Len(s) - Len(suffix) + 1, Len(s)) = suffix

\* String.prototype.replace(pattern, ' ') with a string pattern: the first
\* occurrence only
replaceFirstChar(s, c, by) ==
    IF \E i \in 1..Len(s) : s[i] = c
    THEN LET k == CHOOSE i \in 1..Len(s) : s[i] = c /\ \A j \in 1..(i - 1) : s[j] # c
         IN [i \in 1..Len(s) |-> IF i = k THEN by ELSE s[i]]
    ELSE s

\* spend.toString().replace(/[$,]/g, ''): every '$' and ',' removed
StripDollarComma(s) == SelectSeq(s, LAMBDA c : c \notin {"$", ","})

\* The test with a character class that lacks the space: /[^a-zA-Z0-9_-]/
HasSpecialChar_SpaceRejected(s) ==
    \E i \in 1..Len(s) :
        s[i] \notin (LowerChars \cup UpperChars \cup DigitChars \cup {"_", "-"})

\* /[^a-zA-Z0-9 _-]/.test(s)
ChannelAllowedChars == LowerChars \cup UpperChars \cup DigitChars \cup {" ", "_", "-"}
HasSpecialChar(s) == \E i \in 1..Len(s) : s[i] \notin ChannelAllowedChars

\* The characters left after StrWhiteSpace is skipped on both sides
RECURSIVE TrimLeft(_)
TrimLeft(s) ==
    IF s # <<>> /\ Head(s) \in WhiteSpaceChars THEN TrimLeft(Tail(s)) ELSE s

RECURSIVE TrimRight(_)
TrimRight(s) ==
    IF s # <<>> /\ s[Len(s)] \in WhiteSpaceChars
    THEN TrimRight(SubSeq(s, 1, Len(s) - 1))
    ELSE s

Trim(s) == TrimRight(TrimLeft(s))

AllIn(s, chars) == \A i \in 1..Len(s) : s[i] \in chars

\* DecimalDigits [. DecimalDigits?] | . DecimalDigits
Mantissa(s) ==
    \/ s # <<>> /\ AllIn(s, DigitChars)
    \/ /\ Len(s) > 1
       /\ \E k \in 1..Len(s) :
            /\ s[k] = "."
            /\ AllIn(SubSeq(s, 1, k - 1), DigitChars)
            /\ AllIn(SubSeq(s, k + 1, Len(s)), DigitChars)

\* ExponentPart, or nothing
ExponentOpt(s) ==
    \/ s = <<>>
    \/ /\ Len(s) >= 2
       /\ s[1] \in {"e", "E"}
       /\ LET r == IF s[2] \in {"+", "-"} THEN SubSeq(s, 3, Len(s))
                   ELSE SubSeq(s, 2, Len(s))
          IN r # <<>> /\ AllIn(r, DigitChars)

s_Infinity == <<"I", "n", "f", "i", "n", "i", "t", "y">>

\* StrDecimalLiteral of the StringNumericLiteral grammar
StrDecimalLiteral(s) ==
    LET u == IF s # <<>> /\ s[1] \in {"+", "-"} THEN Tail(s) ELSE s
    IN \/ u = s_Infinity
       \/ \E k \in 1..Len(u) :
            Mantissa(SubSeq(u, 1, k)) /\ ExponentOpt(SubSeq(u, k + 1, Len(u)))

\* NonDecimalIntegerLiteral: 0x, 0o, 0b
NonDecimalLiteral(s) ==
    /\ Len(s) >= 3
    /\ s[1] = "0"
    /\ LET r == SubSeq(s, 3, Len(s))
       IN \/ s[2] \in {"x", "X"}
             /\ AllIn(r, DigitChars \cup {"a", "b", "c", "d", "e", "f",
                                          "A", "B", "C", "D", "E", "F"})
          \/ s[2] \in {"o", "O"} /\ AllIn(r, {"0", "1", "2", "3", "4", "5", "6", "7"})
          \/ s[2] \in {"b", "B"} /\ AllIn(r, {"0", "1"})

\* isNaN(Number(s)) for a string s: Number gives 0 for an empty or
\* white-space string, a number for a StringNumericLiteral, NaN otherwise
StringIsNaN(s) ==
    LET t == Trim(s)
    IN ~ (t = <<>> \/ StrDecimalLiteral(t) \/ NonDecimalLiteral(t))

\* Number.prototype.toString for an integer
DigitOf == <<"0", "1", "2", "3", "4", "5", "6", "7", "8", "9">>

RECURSIVE NatToString(_)
NatToString(n) ==
    IF n < 10 THEN <<DigitOf[n + 1]>>
    ELSE NatToString(n \div 10) \o <<DigitOf[(n % 10) + 1]>>

IntToString(n) == IF n < 0 THEN <<"-">> \o NatToString(0 - n) ELSE NatToString(n)

----------------------------------------------------------------------------
(* JavaScript values *)

StrV(s) == [t |-> "string", s |-> s, n |-> 0]
NumV(n) == [t |-> "number", s |-> <<>>, n |-> n]
Undefined == [t |-> "undefined", s |-> <<>>, n |-> 0]
NullV == [t |-> "null", s |-> <<>>, n |-> 0]

\* value.toString()
ValueToString(v) == IF v.t = "number" THEN IntToString(v.n) ELSE v.s

\* ToBoolean(v): undefined, null, '' and 0 are falsy
Truthy(v) ==
    CASE v.t = "undefined" -> FALSE
      [] v.t = "string" -> v.s # <<>>
      [] v.t = "number" -> v.n # 0
      [] v.t = "null" -> FALSE
      [] OTHER -> TRUE

----------------------------------------------------------------------------
(* Map: entries [k, v] in insertion order *)

MapHas(m, k) == \E i \in 1..Len(m) : m[i].k = k

MapGet(m, k) == m[CHOOSE i \in 1..Len(m) : m[i].k = k].v

\* Map.prototype.set: an existing key keeps its place
MapSet(m, k, v) ==
    IF MapHas(m, k)
    THEN [i \in 1..Len(m) |-> IF m[i].k = k THEN [k |-> k, v |-> v] ELSE m[i]]
    ELSE Append(m, [k |-> k, v |-> v])

\* Array.from(map.values())
MapValues(m) == [i \in 1..Len(m) |-> m[i].v]

\* { ...base, ...over }
Spread(base, over) ==
    [f \in (DOMAIN base) \cup (DOMAIN over) |->
        IF f \in DOMAIN over THEN over[f] ELSE base[f]]

Null == "<null>"

----------------------------------------------------------------------------
(* MemStorage *)

\* const userId = 1 in every route
DefaultUserId == 1

\* constructor: createUser({ username: "testuser", password: "password" })
InitialUsers ==
    <<[k |-> 1, v |-> [id |-> 1, username |-> "testuser", password |-> "password"]]>>

\* createUser: const id = this.currentUserId++; { ...insertUser, id }.  The
\* counter starts at 1 and no user is removed: it is one more than the size
createUser(insertUser) ==
    LET id == Len(users) + 1
    IN MapSet(users, id, Spread(insertUser, [id |-> id]))

\* getUser(id) !== undefined
UserExists(id) == MapHas(users, id)

\* getOnboardingData(userId) !== undefined
HasOnboardingData(userId) ==
    \E i \in 1..Len(onboardingData) : onboardingData[i].v.userId = userId

\* getOnboardingData: the first record, in insertion order, of the user
getOnboardingData(userId) ==
    onboardingData[CHOOSE i \in 1..Len(onboardingData) :
                      /\ onboardingData[i].v.userId = userId
                      /\ \A j \in 1..(i - 1) : onboardingData[j].v.userId # userId].v

NewOnboardingData(userId, step) ==
    [id |-> Len(onboardingData) + 1,
     userId |-> userId,
     step |-> step,
     primaryKpi |-> Null,
     secondaryKpis |-> <<>>,
     uploadMethod |-> Null,
     dataStatus |-> Null,
     externalFactors |-> Null,
     completed |-> FALSE,
     createdAt |-> now,
     updatedAt |-> now]

\* The record stored when the record of the user is not looked up
UpdatedOnboardingData_Fresh(userId, step, data) ==
    Spread(Spread(NewOnboardingData(userId, step), data), [updatedAt |-> now])

\* saveOnboardingStep, for an existing user: the record it stores
UpdatedOnboardingData(userId, step, data) ==
    LET base == IF HasOnboardingData(userId) THEN getOnboardingData(userId)
                ELSE NewOnboardingData(userId, step)
    IN Spread(Spread(Spread(base, [step |-> step]), data), [updatedAt |-> now])

\* saveOnboardingStep throws "User not found"
saveOnboardingStepThrows(userId) == ~ UserExists(userId)

\* saveOnboardingStep: the store after it (unchanged when it throws)
saveOnboardingStep(userId, step, data) ==
    IF saveOnboardingStepThrows(userId) THEN onboardingData
    ELSE LET updatedData == UpdatedOnboardingData(userId, step, data)
         IN MapSet(onboardingData, updatedData.id, updatedData)

\* getOnboardingData found no record: undefined
NoRecord == [undefined |-> TRUE]

\* The record built from the current store, whatever was read
UpdatedFromRead_Current(read, userId, step, data) ==
    UpdatedOnboardingData(userId, step, data)

\* saveOnboardingStep after its second await: the record it stores, built
\* from what getOnboardingData returned before the await (read), with the
\* id of a new record taken from the size of the map after it
UpdatedFromRead(read, userId, step, data) ==
    LET base == IF read # NoRecord THEN read ELSE NewOnboardingData(userId, step)
    IN Spread(Spread(Spread(base, [step |-> step]), data), [updatedAt |-> now])

\* completeOnboarding throws "Onboarding data not found for user"
completeOnboardingThrows(userId) == ~ HasOnboardingData(userId)

\* The record completeOnboarding stores
CompletedOnboardingData(userId) ==
    Spread(getOnboardingData(userId),
           [step |-> "complete", completed |-> TRUE, updatedAt |-> now])

\* The store after a completion that sets the step alone
completeOnboarding_StepOnly(userId) ==
    IF completeOnboardingThrows(userId) THEN onboardingData
    ELSE LET updatedData == Spread(getOnboardingData(userId), [step |-> "complete"])
         IN MapSet(onboardingData, updatedData.id, updatedData)

\* completeOnboarding: the store after it (unchanged when it throws)
completeOnboarding(userId) ==
    IF completeOnboardingThrows(userId) THEN onboardingData
    ELSE LET updatedData ==
                 Spread(getOnboardingData(userId),
                        [step |-> "complete", completed |-> TRUE, updatedAt |-> now])
         IN MapSet(onboardingData, updatedData.id, updatedData)

\* saveUploadedFile: the record it stores under the next file id
NewUploadedFile(userId, file) ==
    Spread([id |-> currentFileId, userId |-> userId],
           Spread(file, [createdAt |-> now]))

\* Array.prototype.sort((a, b) => b.createdAt - a.createdAt): a stable sort,
\* elements that compare equal keep their order
RECURSIVE SortByCreatedAtDesc(_)
SortByCreatedAtDesc(s) ==
    IF s = <<>> THEN <<>>
    ELSE LET i == CHOOSE i \in 1..Len(s) :
                     /\ \A j \in 1..Len(s) : s[j].createdAt <= s[i].createdAt
                     /\ \A j \in 1..(i - 1) : s[j].createdAt < s[i].createdAt
         IN <<s[i]>> \o SortByCreatedAtDesc(SubSeq(s, 1, i - 1) \o SubSeq(s, i + 1, Len(s)))

getUploadedFiles(userId) ==
    SortByCreatedAtDesc(SelectSeq(MapValues(uploadedFiles), LAMBDA f : f.userId = userId))

\* saveIntegration: the record it stores under the next integration id
NewIntegration(userId, integration) ==
    Spread(Spread([id |-> currentIntegrationId, userId |-> userId], integration),
           [createdAt |-> now])

\* integration.status !== 'disconnected' (a record saved without a status
\* has none)
NotDisconnected(integration) ==
    "status" \notin DOMAIN integration \/ integration.status # "disconnected"

\* The integrations of the user, the disconnected ones too
getUserIntegrations_Unfiltered(userId) ==
    SortByCreatedAtDesc(SelectSeq(MapValues(integrations), LAMBDA i : i.userId = userId))

getUserIntegrations(userId) ==
    SortByCreatedAtDesc(SelectSeq(MapValues(integrations),
                                  LAMBDA i : i.userId = userId /\ NotDisconnected(i)))

\* disconnectIntegration returns false: !integration || integration.userId !== userId
disconnectIntegrationRefuses(userId, integrationId) ==
    \/ ~ MapHas(integrations, integrationId)
    \/ MapGet(integrations, integrationId).userId # userId

\* disconnectIntegration: the map after it
disconnectIntegration(userId, integrationId) ==
    IF disconnectIntegrationRefuses(userId, integrationId) THEN integrations
    ELSE MapSet(integrations, integrationId,
                Spread(MapGet(integrations, integrationId), [status |-> "disconnected"]))

----------------------------------------------------------------------------
(* Rows: a parsed row is an object, modelled as its entries [key, val] in *)
(* key order                                                              *)

\* Object.keys(row)
ObjectKeys(row) == [i \in 1..Len(row) |-> row[i].key]

\* row[key]
RowGet(row, key) ==
    IF \E i \in 1..Len(row) : row[i].key = key
    THEN row[CHOOSE i \in 1..Len(row) : row[i].key = key].val
    ELSE Undefined

s_date == <<"d", "a", "t", "e">>
s_channel == <<"c", "h", "a", "n", "n", "e", "l">>
s_campaign == <<"c", "a", "m", "p", "a", "i", "g", "n">>
s_spend == <<"s", "p", "e", "n", "d">>
s_cost == <<"c", "o", "s", "t">>
s_csv == <<"c", "s", "v">>
s_spreadsheet == <<"s", "p", "r", "e", "a", "d", "s", "h", "e", "e", "t">>
s_dot_xlsx == <<".", "x", "l", "s", "x">>
s_dot_xls == <<".", "x", "l", "s">>

\* key => key.toLowerCase() === name
KeyIs(name, key) == toLowerCase(key) = name

\* key => key.toLowerCase() === 'spend' || key.toLowerCase().includes('cost')
KeyIsSpend(key) == toLowerCase(key) = s_spend \/ includes(toLowerCase(key), s_cost)

\* Object.keys(row).find(key => key.toLowerCase() === name): the keys that
\* match, in key order (the column found is the first; none: not found)
KeysMatching(row, name) == SelectSeq(ObjectKeys(row), LAMBDA key : KeyIs(name, key))

SpendKeys(row) == SelectSeq(ObjectKeys(row), KeyIsSpend)

----------------------------------------------------------------------------
(* POST /api/analyze/data *)

\* What the bytes at file.path decode to.  content.format is "csv" (text with
\* a header line), "workbook" (a spreadsheet whose first sheet has a header
\* row) or "protected" (a workbook XLSX.readFile refuses, throwing).
\* Papa.parse(text, { header: true }): data and meta.fields
PapaParse(content) == [data |-> content.rows, fields |-> content.fields]

\* XLSX.utils.sheet_to_json(first sheet of XLSX.readFile(path))
SheetToJson(content) == content.rows

\* The parse step: whether it threw, and parsedData and columns
ParseFile(file) ==
    IF includes(file.mimetype, s_csv)
    THEN [threw |-> FALSE,
          parsedData |-> PapaParse(file.content).data,
          columns |-> PapaParse(file.content).fields]
    ELSE IF \/ includes(file.mimetype, s_spreadsheet)
            \/ endsWith(file.path, s_dot_xlsx)
            \/ endsWith(file.path, s_dot_xls)
    THEN IF file.content.format = "protected"
         THEN [threw |-> TRUE, parsedData |-> <<>>, columns |-> <<>>]
         ELSE LET parsedData == SheetToJson(file.content)
              IN [threw |-> FALSE,
                  parsedData |-> parsedData,
                  columns |-> IF Len(parsedData) > 0 THEN ObjectKeys(parsedData[1])
                              ELSE <<>>]
    ELSE [threw |-> FALSE, parsedData |-> <<>>, columns |-> <<>>]

s_dot_csv == <<".", "c", "s", "v">>

\* const allowedExtensions = [".csv", ".xlsx", ".xls"]
allowedExtensions == {s_dot_csv, s_dot_xlsx, s_dot_xls}

\* path.extname: from the last '.' of the name to its end ('' without one)
extname(name) ==
    IF \E i \in 1..Len(name) : name[i] = "."
    THEN LET k == CHOOSE i \in 1..Len(name) :
                     name[i] = "." /\ \A j \in (i + 1)..Len(name) : name[j] # "."
         IN SubSeq(name, k, Len(name))
    ELSE <<>>

\* fileFilter: allowedExtensions.includes(path.extname(originalname).toLowerCase());
\* the stored path ends with path.extname(originalname) as it is spelled
fileFilter(file) == toLowerCase(extname(file.path)) \in allowedExtensions

\* The branch of the parse step the file takes
Backend(file) ==
    IF includes(file.mimetype, s_csv) THEN "csv"
    ELSE IF \/ includes(file.mimetype, s_spreadsheet)
            \/ endsWith(file.path, s_dot_xlsx)
            \/ endsWith(file.path, s_dot_xls)
    THEN "spreadsheet"
    ELSE "none"

requiredColumns == <<s_date, s_channel, s_campaign, s_spend>>

SeqIncludes(s, x) == \E i \in 1..Len(s) : s[i] = x

lowerCaseColumns(columns) == [i \in 1..Len(columns) |-> toLowerCase(columns[i])]

\* The missing columns cut to the first one found (find in place of filter)
missingColumns_FirstOnly(columns) ==
    LET missing == SelectSeq(requiredColumns,
                             LAMBDA col : ~ SeqIncludes(lowerCaseColumns(columns), col))
    IN IF missing = <<>> THEN <<>> ELSE <<missing[1]>>

\* requiredColumns.filter(col => !lower.includes(col) && !lower.includes(col.replace('_', ' ')))
missingColumns(columns) ==
    SelectSeq(requiredColumns,
              LAMBDA col :
                  /\ ~ SeqIncludes(lowerCaseColumns(columns), col)
                  /\ ~ SeqIncludes(lowerCaseColumns(columns),
                                   replaceFirstChar(col, "_", " ")))

MissingColumnMessage(col) ==
    <<"Required column \"">> \o col \o <<"\" is missing from the data file">>

MissingColumnErrors(columns) ==
    LET missing == missingColumns(columns)
    IN [i \in 1..Len(missing) |->
           [row |-> 0, column |-> missing[i], message |-> MissingColumnMessage(missing[i])]]

\* if (dateCol && !row[dateCol])
DateErrors(row, index) ==
    LET found == KeysMatching(row, s_date)
    IN IF found # <<>> /\ found[1] # <<>> /\ ~ Truthy(RowGet(row, found[1]))
       THEN <<[row |-> index + 2, column |-> found[1], message |-> <<"Missing date value">>]>>
       ELSE <<>>

\* if (spendCol) { ... }
SpendErrors(row, index) ==
    LET found == SpendKeys(row)
        spend == RowGet(row, found[1])
    IN IF found = <<>> \/ found[1] = <<>> THEN <<>>
       ELSE IF spend.t = "undefined" \/ spend = StrV(<<>>)
       THEN <<[row |-> index + 2, column |-> found[1],
               message |-> <<"Missing spend value">>]>>
       ELSE IF StringIsNaN(StripDollarComma(ValueToString(spend)))
       THEN <<[row |-> index + 2, column |-> found[1],
               message |-> <<"Invalid spend format (must be numeric)">>]>>
       ELSE <<>>

\* if (channelCol && typeof row[channelCol] === 'string') { ... }
ChannelErrors(row, index) ==
    LET found == KeysMatching(row, s_channel)
        channel == RowGet(row, found[1])
    IN IF found = <<>> \/ found[1] = <<>> THEN <<>>
       ELSE IF channel.t = "string" /\ HasSpecialChar(channel.s)
       THEN <<[row |-> index + 2, column |-> found[1],
               message |-> <<"Channel name contains special characters">>]>>
       ELSE <<>>

\* The row number without the header line counted: index + 1
RowErrors_HeaderNotCounted(row, index) ==
    DateErrors(row, index - 1) \o SpendErrors(row, index - 1)
        \o ChannelErrors(row, index - 1)

\* The body of parsedData.forEach((row, index) => ...), index from 0
RowErrors(row, index) ==
    DateErrors(row, index) \o SpendErrors(row, index) \o ChannelErrors(row, index)

\* parsedData.forEach: the errors pushed, rows 1..n of parsedData
RECURSIVE ErrorsUpTo(_, _)
ErrorsUpTo(parsedData, n) ==
    IF n = 0 THEN <<>>
    ELSE ErrorsUpTo(parsedData, n - 1) \o RowErrors(parsedData[n], n - 1)

\* The errors array kept across requests: the errors stored by the analysis
\* before, then those of this one
ValidateRows_Accumulating(parsedData) ==
    (IF HasOnboardingData(DefaultUserId)
        /\ "dataErrors" \in DOMAIN getOnboardingData(DefaultUserId)
     THEN getOnboardingData(DefaultUserId).dataErrors
     ELSE <<>>)
    \o ErrorsUpTo(parsedData, Len(parsedData))

\* The loop left at the first row that has an error (a for loop with a break
\* in place of forEach)
ValidateRows_StopAtFirstError(parsedData) ==
    LET bad == {i \in 1..Len(parsedData) : RowErrors(parsedData[i], i - 1) # <<>>}
    IN IF bad = {} THEN <<>>
       ELSE ErrorsUpTo(parsedData, CHOOSE k \in bad : \A j \in bad : k <= j)

ValidateRows(parsedData) == ErrorsUpTo(parsedData, Len(parsedData))

\* row => { channelCol = keys.find(...); return channelCol ? row[channelCol] : null }
ChannelValue(row) ==
    LET found == KeysMatching(row, s_channel)
    IN IF found # <<>> /\ found[1] # <<>> THEN RowGet(row, found[1]) ELSE NullV

\* new Set(parsedData.map(...).filter(Boolean)).size
SummaryChannels(parsedData) ==
    Cardinality({ChannelValue(parsedData[i]) : i \in
                    {j \in 1..Len(parsedData) : Truthy(ChannelValue(parsedData[j]))}})

PreviewLimit == 5

Min(a, b) == IF a < b THEN a ELSE b

\* The preview without the slice: every row
Preview_Unbounded(parsedData) == parsedData

\* parsedData.slice(0, Math.min(5, parsedData.length))
Preview(parsedData) == SubSeq(parsedData, 1, Min(PreviewLimit, Len(parsedData)))

\* status: errors.length > 0 ? "error" : "success"
StatusOf(errors) == IF Len(errors) > 0 THEN "error" ELSE "success"

\* The response built after the row checks; errors: undefined is not sent
ValidationResponse(parsedData, columns) ==
    LET errors == ValidateRows(parsedData)
        body == [status |-> StatusOf(errors),
                 summary |-> [timePeriod |-> "Sample period",
                              dataPoints |-> Len(parsedData),
                              channels |-> SummaryChannels(parsedData)],
                 preview |-> Preview(parsedData),
                 columns |-> columns]
    IN IF Len(errors) > 0 THEN Spread(body, [errors |-> errors]) ELSE body

\* if (missingColumns.length > 0) return res.json({ status, errors })
MissingColumnResponse(columns) ==
    [status |-> "error", errors |-> MissingColumnErrors(columns)]

\* The answer without the guard on files.length: files[0] is undefined,
\* reading file.mimetype throws, the catch block answers
NoFilesResponse_Thrown ==
    [status |-> "error",
     message |-> "Cannot read properties of undefined (reading 'mimetype')"]

\* if (files.length === 0) return res.status(400).json(...)
NoFilesResponse ==
    [success |-> FALSE, message |-> "No files have been uploaded for analysis"]

\* catch (error): res.status(400).json({ status: "error", message })
CatchResponse(message) == [status |-> "error", message |-> message]

\* Whether the handler, given the file, reaches storage.saveOnboardingStep
ReachesSave(file) ==
    /\ ~ ParseFile(file).threw
    /\ Len(missingColumns(ParseFile(file).columns)) = 0

\* The body the handler sends for the file it picked
ResponseFor(file) ==
    LET parsed == ParseFile(file)
    IN IF parsed.threw THEN CatchResponse("File is password-protected")
       ELSE IF Len(missingColumns(parsed.columns)) > 0
       THEN MissingColumnResponse(parsed.columns)
       ELSE IF saveOnboardingStepThrows(DefaultUserId)
       THEN CatchResponse("User not found")
       ELSE ValidationResponse(parsed.parsedData, parsed.columns)

\* saveOnboardingStep(userId, "analyze", { dataStatus, dataErrors })
AnalysisStepData(resp) ==
    [dataStatus |-> resp.status,
     dataErrors |-> IF "errors" \in DOMAIN resp THEN resp.errors ELSE <<>>]

\* The store after the handler ran on the file
StoreAfterAnalyze(file) ==
    IF ReachesSave(file)
    THEN saveOnboardingStep(DefaultUserId, "analyze", AnalysisStepData(ResponseFor(file)))
    ELSE onboardingData

\* const file = files[0]
PickFile(files) == files[1]

NoResponse == [none |-> TRUE]

\* No MemStorage method was called yet
NoResult == [none |-> TRUE]

AnalyzeData ==
    LET files == getUploadedFiles(DefaultUserId)
    IN /\ IF Len(files) = 0
          THEN /\ response' = NoFilesResponse
               /\ analyzedId' = 0
               /\ UNCHANGED onboardingData
          ELSE /\ response' = ResponseFor(PickFile(files))
               /\ analyzedId' = PickFile(files).id
               /\ onboardingData' = StoreAfterAnalyze(PickFile(files))
       /\ prevResponse' = response
       /\ lastOp' = "analyze"
       /\ UNCHANGED <<users, uploadedFiles, currentFileId, now>>

----------------------------------------------------------------------------
(* POST /api/upload/file *)

\* storage.saveUploadedFile(userId, { ..., mimetype, path }) with the bytes
\* multer wrote at path
UploadFile(file) ==
    /\ Len(uploadedFiles) < MaxFiles
    /\ fileFilter(file)
    /\ uploadedFiles' = MapSet(uploadedFiles, currentFileId,
                               NewUploadedFile(DefaultUserId, file))
    /\ currentFileId' = currentFileId + 1
    /\ response' = NoResponse
    /\ prevResponse' = NoResponse
    /\ analyzedId' = 0
    /\ lastOp' = "upload"
    /\ UNCHANGED <<users, onboardingData, now>>

----------------------------------------------------------------------------
(* POST /api/onboarding/step and POST /api/onboarding/complete *)

\* const { step, ...data } = req.body; storage.saveOnboardingStep(1, step, data)
SaveStep(step, data) ==
    /\ onboardingData' = saveOnboardingStep(DefaultUserId, step, data)
    /\ lastOp' = "step"
    /\ UNCHANGED <<users, uploadedFiles, currentFileId, now, response, prevResponse,
                   analyzedId>>

CompleteOnboarding ==
    /\ onboardingData' = completeOnboarding(DefaultUserId)
    /\ lastOp' = "complete"
    /\ UNCHANGED <<users, uploadedFiles, currentFileId, now, response, prevResponse,
                   analyzedId>>

\* The clock advances between two reads of new Date()
Tick ==
    /\ now < MaxTime
    /\ now' = now + 1
    /\ UNCHANGED <<users, onboardingData, uploadedFiles, currentFileId, lastOp,
                   response, prevResponse, analyzedId>>

----------------------------------------------------------------------------
(* The client: pages/Onboarding.tsx, hooks/useOnboarding.ts, UploadStep and *)
(* AnalyzeStep                                                              *)

\* export const steps = [...]: the ids, index 0 first
steps == <<"welcome", "objectives", "upload", "analyze", "factors", "review">>

UploadIndex == 2
AnalyzeIndex == 3

\* useState<OnboardingData | null>(null)
NullData == [null |-> TRUE]

EmptyObject == [f \in {} |-> 0]

\* if (data && data.dataStatus)
HasStoredStatus(data) ==
    /\ data # NullData
    /\ "dataStatus" \in DOMAIN data
    /\ data.dataStatus \notin {Null, ""}

\* AnalyzeStep on mount: useState("analyzing"), then the effect takes the
\* status of the record if it has one
MountStatus(data) == IF HasStoredStatus(data) THEN data.dataStatus ELSE "analyzing"

\* AnalyzeStep on mount: the effect calls analyzeDataMutation.mutate()
\* otherwise
MountIssuesRequest(data) == ~ HasStoredStatus(data)

\* The payload a step hands to onNext (the welcome step hands the click
\* event: see handleNext)
StepPayloads(index) ==
    CASE index = 1 -> {[primaryKpi |-> "purchase", secondaryKpis |-> <<>>]}
      [] index = UploadIndex -> {[uploadMethod |-> "manual"]}
      [] index = AnalyzeIndex ->
            {IF analysisStatus = "undefined" THEN EmptyObject
             ELSE [dataStatus |-> analysisStatus]}
      [] index = 4 -> {[externalFactors |-> "none enabled"]}
      [] OTHER -> {EmptyObject}

\* The continue button of the step can be used
ContinueEnabled ==
    CASE currentStep = UploadIndex -> uploadedHere
      [] currentStep = AnalyzeIndex -> analysisStatus # "analyzing" /\ ~ analyzePending
      [] OTHER -> TRUE

\* res.status(400) on the two answers that carry a message
ResponseOk(resp) == "message" \notin DOMAIN resp

\* The step shown after a move to the index: AnalyzeStep mounts with the
\* record the hook holds then, and a request left behind stays in flight
ShowStep(index, data) ==
    /\ currentStep' = index
    /\ uploadedHere' = FALSE
    /\ analysisStatus' = IF index = AnalyzeIndex THEN MountStatus(data) ELSE "unmounted"
    /\ analyzePending' = (index = AnalyzeIndex /\ MountIssuesRequest(data))
    /\ orphans' = IF analyzePending THEN orphans + 1 ELSE orphans

\* handleNext: the save of the current step answered by the server, then
\* setCurrentStep(currentStep + 1).  sent = FALSE: the request fails (the
\* network; or the welcome step, whose payload is the click event, before
\* it is sent); saveStepData catches the error and returns false, and the
\* page moves on all the same
handleNext(data, sent) ==
    /\ currentStep < Len(steps) - 1
    /\ ContinueEnabled
    /\ analyzePending => orphans < MaxOrphans
    /\ IF sent
       THEN /\ SaveStep(steps[currentStep + 1], data)
            /\ clientData' = UpdatedOnboardingData(DefaultUserId, steps[currentStep + 1],
                                                   data)
            /\ ShowStep(currentStep + 1,
                        UpdatedOnboardingData(DefaultUserId, steps[currentStep + 1], data))
       ELSE /\ UNCHANGED <<serverVars, clientData>>
            /\ ShowStep(currentStep + 1, clientData)

\* handlePrevious, on a step after the first
handlePrevious ==
    /\ currentStep > 0
    /\ analyzePending => orphans < MaxOrphans
    /\ ShowStep(currentStep - 1, clientData)
    /\ UNCHANGED <<serverVars, clientData, objectivesVars, storeVars>>

\* steps.findIndex(step => step.id === id): an index from 0, or -1
findIndex(id) ==
    IF \E i \in 1..Len(steps) : steps[i] = id
    THEN (CHOOSE i \in 1..Len(steps) : steps[i] = id) - 1
    ELSE -1

\* The index taken without the test for -1
ProgressStep_Unchecked(record, current) ==
    IF record # EmptyObject /\ record.step # Null THEN findIndex(record.step) ELSE current

\* useQuery onSuccess: the index of the saved step if it is a step of the
\* wizard, else the current one.  record is data.data: the record, or {}
ProgressStep(record, current) ==
    IF record # EmptyObject /\ record.step # Null /\ findIndex(record.step) # -1
    THEN findIndex(record.step)
    ELSE current

\* GET /api/onboarding/progress: data: onboardingData || {}
ProgressData ==
    IF HasOnboardingData(DefaultUserId) THEN getOnboardingData(DefaultUserId)
    ELSE EmptyObject

\* The progress query is answered, on the load of the page or on a refetch
\* after a save invalidated it; a step that changes is shown anew
ProgressLoaded ==
    /\ ProgressStep(ProgressData, currentStep) # currentStep
    /\ analyzePending => orphans < MaxOrphans
    /\ ShowStep(ProgressStep(ProgressData, currentStep), clientData)
    /\ UNCHANGED <<serverVars, clientData, objectivesVars, storeVars>>

\* The page is opened anew: useState(0), useState(null); a request of the
\* page before stays in flight
PageLoad ==
    /\ currentStep # 0 \/ clientData # NullData
    /\ analyzePending => orphans < MaxOrphans
    /\ ShowStep(0, NullData)
    /\ clientData' = NullData
    /\ UNCHANGED <<serverVars, objectivesVars, storeVars>>

\* ReviewStep.handleBuildModel with the terms agreed: POST
\* /api/onboarding/complete, then navigate("/dashboard").  The page is left;
\* the state after is that of the page opened anew
BuildModel ==
    /\ currentStep = Len(steps) - 1
    /\ CompleteOnboarding
    /\ IF completeOnboardingThrows(DefaultUserId)
       THEN UNCHANGED clientVars
       ELSE ShowStep(0, NullData) /\ clientData' = NullData
    /\ UNCHANGED <<objectivesVars, storeVars>>

\* ObjectivesStep: kpiOptions.primary and kpiOptions.secondary, the ids
PrimaryKpiIds == {"purchase", "app_install", "sign_up"}

SecondaryKpiIds ==
    {"add_to_cart", "view_product", "search", "tutorial_complete", "level_complete",
     "reward_unlocked", "rating"}

\* The selection after a toggle that never refuses to add
ToggledKpis_NoLimit(prevKpis, kpiId) ==
    IF SeqIncludes(prevKpis, kpiId)
    THEN SelectSeq(prevKpis, LAMBDA id : id # kpiId)
    ELSE Append(prevKpis, kpiId)

\* handleSecondaryKpiToggle: the updater handed to setSecondaryKpis
ToggledKpis(prevKpis, kpiId) ==
    IF SeqIncludes(prevKpis, kpiId)
    THEN SelectSeq(prevKpis, LAMBDA id : id # kpiId)
    ELSE IF Len(prevKpis) >= 3 THEN prevKpis
    ELSE Append(prevKpis, kpiId)

\* ObjectivesStep is the step shown at index 1
ObjectivesIndex == 1

handlePrimaryKpiSelect(kpiId) ==
    /\ currentStep = ObjectivesIndex
    /\ primaryKpi' = kpiId
    /\ UNCHANGED <<serverVars, clientVars, secondaryKpis, storeVars>>

handleSecondaryKpiToggle(kpiId) ==
    /\ currentStep = ObjectivesIndex
    /\ secondaryKpis' = ToggledKpis(secondaryKpis, kpiId)
    /\ UNCHANGED <<serverVars, clientVars, primaryKpi, storeVars>>

\* handleContinue: returns without a primary KPI, else hands the selection
\* to onNext, which is handleNext of the page
handleContinue ==
    /\ currentStep = ObjectivesIndex
    /\ primaryKpi # Null
    /\ \E sent \in BOOLEAN :
           handleNext([primaryKpi |-> primaryKpi, secondaryKpis |-> secondaryKpis], sent)
    /\ UNCHANGED <<objectivesVars, storeVars>>

\* UploadStep: uploadFileMutation answered by the server
ClientUpload(file) ==
    /\ currentStep = UploadIndex
    /\ UploadFile(file)
    /\ uploadedHere' = TRUE
    /\ UNCHANGED <<currentStep, clientData, analysisStatus, analyzePending, orphans,
                   objectivesVars, storeVars>>

\* The status onSuccess or onError sets.  A 400 answer either rejects in
\* apiRequest (onError) or is handed to onSuccess: both are modelled
SettledStatus(resp, rejected) ==
    IF ~ ResponseOk(resp) /\ rejected THEN "error"
    ELSE IF "status" \in DOMAIN resp THEN resp.status
    ELSE "undefined"

\* The analyze request of the mounted AnalyzeStep is answered
AnalyzeSettled ==
    /\ analyzePending
    /\ AnalyzeData
    /\ analyzePending' = FALSE
    /\ \E rejected \in BOOLEAN : analysisStatus' = SettledStatus(response', rejected)
    /\ UNCHANGED <<currentStep, clientData, uploadedHere, orphans, objectivesVars,
                   storeVars>>

\* An analyze request whose AnalyzeStep is gone is answered: no client state
\* is set
OrphanSettled ==
    /\ orphans > 0
    /\ AnalyzeData
    /\ orphans' = orphans - 1
    /\ UNCHANGED <<currentStep, clientData, uploadedHere, analysisStatus, analyzePending,
                   objectivesVars, storeVars>>

----------------------------------------------------------------------------
(* The files of the model: column names, cell values, rows *)

c_Date == <<"D", "a", "t", "e">>
c_Channel == <<"C", "h", "a", "n", "n", "e", "l">>
c_Campaign == <<"C", "a", "m", "p", "a", "i", "g", "n">>
c_Spend == <<"S", "p", "e", "n", "d">>
c_date == <<"d", "a", "t", "e">>
c_CHANNEL == <<"C", "H", "A", "N", "N", "E", "L">>
c_campaign == <<"c", "a", "m", "p", "a", "i", "g", "n">>
c_SPEND == <<"S", "P", "E", "N", "D">>
c_Cost == <<"C", "o", "s", "t">>
c_AdCost == <<"A", "d", " ", "C", "o", "s", "t">>

m_csv ==
    <<"t", "e", "x", "t", "/", "c", "s", "v">>
m_xlsx ==
    <<"a", "p", "p", "l", "i", "c", "a", "t", "i", "o", "n", "/", "v", "n", "d", ".", "o",
    "p", "e", "n", "x", "m", "l", "f", "o", "r", "m", "a", "t", "s", "-", "o", "f", "f", "i",
    "c", "e", "d", "o", "c", "u", "m", "e", "n", "t", ".", "s", "p", "r", "e", "a", "d", "s",
    "h", "e", "e", "t", "m", "l", ".", "s", "h", "e", "e", "t">>
m_xls ==
    <<"a", "p", "p", "l", "i", "c", "a", "t", "i", "o", "n", "/", "v", "n", "d", ".", "m",
    "s", "-", "e", "x", "c", "e", "l">>
m_octet ==
    <<"a", "p", "p", "l", "i", "c", "a", "t", "i", "o", "n", "/", "o", "c", "t", "e", "t",
    "-", "s", "t", "r", "e", "a", "m">>

\* path.join(uploadDir, fieldname + "-" + uniqueSuffix + path.extname(originalname))
p_csv ==
    <<"u", "p", "l", "o", "a", "d", "s", "/", "f", "i", "l", "e", "-", "1", ".", "c", "s",
    "v">>
p_xlsx ==
    <<"u", "p", "l", "o", "a", "d", "s", "/", "f", "i", "l", "e", "-", "1", ".", "x", "l",
    "s", "x">>
p_xls ==
    <<"u", "p", "l", "o", "a", "d", "s", "/", "f", "i", "l", "e", "-", "1", ".", "x", "l",
    "s">>
p_XLSX ==
    <<"u", "p", "l", "o", "a", "d", "s", "/", "f", "i", "l", "e", "-", "1", ".", "X", "L",
    "S", "X">>

v_2024 == StrV(<<"2", "0", "2", "4">>)
v_100 == StrV(<<"1", "0", "0">>)
v_1000 == StrV(<<"$", "1", ",", "0", "0", "0", ".", "5">>)
v_abc == StrV(<<"a", "b", "c">>)
v_dollar == StrV(<<"$">>)
v_space == StrV(<<" ">>)
v_Search == StrV(<<"S", "e", "a", "r", "c", "h">>)
v_search == StrV(<<"s", "e", "a", "r", "c", "h">>)
v_SearchBang == StrV(<<"S", "e", "a", "r", "c", "h", "!", "!">>)
v_PaidSocial == StrV(<<"P", "a", "i", "d", " ", "S", "o", "c", "i", "a", "l", "_", "1", "-", "a">>)
v_c1 == StrV(<<"c", "1">>)
v_5 == StrV(<<"5">>)
v_na == StrV(<<"n", "/", "a">>)
v_empty == StrV(<<>>)

\* A cell that gives the row no key: a field missing at the end of a text
\* line, an empty cell of a sheet
Absent == [t |-> "absent", s |-> <<>>, n |-> 0]

\* The values a text cell under the column takes in the model
TextCells(key) ==
    LET lower == toLowerCase(key)
    IN CASE lower = s_date -> {v_2024, v_empty}
         [] lower = s_channel ->
                {v_Search, v_search, v_SearchBang, v_PaidSocial, v_empty}
         [] lower = s_spend ->
                {v_100, v_1000, v_abc, v_dollar, v_space, v_empty}
         [] includes(lower, s_cost) -> {v_5, v_na}
         [] OTHER -> {v_c1}

\* The values a sheet cell under the column takes: text, numbers, or empty
SheetCells(key) ==
    LET lower == toLowerCase(key)
    IN CASE lower = s_date -> {v_2024, Absent}
         [] lower = s_channel -> {v_Search, v_SearchBang, NumV(0), NumV(7), Absent}
         [] lower = s_spend -> {NumV(100), v_1000, v_abc, v_dollar, Absent}
         [] includes(lower, s_cost) -> {NumV(5), v_na, Absent}
         [] OTHER -> {v_c1}

CellOptions(format, key) == IF format = "csv" THEN TextCells(key) ELSE SheetCells(key)

\* A cell that passes every check
GoodCell(key) ==
    LET lower == toLowerCase(key)
    IN CASE lower = s_date -> v_2024
         [] lower = s_channel -> v_Search
         [] lower = s_spend -> v_100
         [] includes(lower, s_cost) -> v_5
         [] OTHER -> v_c1

\* A cell that fails its check
BadCell(format, key) ==
    LET lower == toLowerCase(key)
    IN CASE lower = s_date -> IF format = "csv" THEN v_empty ELSE Absent
         [] lower = s_channel -> v_SearchBang
         [] lower = s_spend -> v_abc
         [] includes(lower, s_cost) -> v_na
         [] OTHER -> v_c1

\* The row object of the cells under the header: absent cells give no key
RowOf(fields, cells) ==
    SelectSeq([i \in 1..Len(fields) |-> [key |-> fields[i], val |-> cells[i]]],
              LAMBDA e : e.val # Absent)

GoodRow(fields) == RowOf(fields, [i \in 1..Len(fields) |-> GoodCell(fields[i])])
BadRow(format, fields) ==
    RowOf(fields, [i \in 1..Len(fields) |-> BadCell(format, fields[i])])

AllCells ==
    UNION {TextCells(k) \cup SheetCells(k) :
              k \in {c_Date, c_Channel, c_Campaign, c_Spend, c_Cost}}

\* Rows that vary the cell of one column, the other cells good
VariedRows(format, fields) ==
    {RowOf(fields, [i \in 1..Len(fields) |->
                       IF i = p[1] THEN p[2] ELSE GoodCell(fields[i])]) :
        p \in {q \in (1..Len(fields)) \X AllCells :
                  q[2] \in CellOptions(format, fields[q[1]])}}

\* A text line with fewer fields than the header gives a row without the
\* last keys
ShortRows(format, fields) ==
    IF format = "csv"
    THEN {SubSeq(GoodRow(fields), 1, k) : k \in 1..Len(fields)}
    ELSE {}

\* The rows of the files with few rows
RichRows(format, fields) ==
    {r \in VariedRows(format, fields) \cup ShortRows(format, fields)
           \cup {BadRow(format, fields)} : r # <<>>}

\* The rows of the files with many rows
FillerRows(format, fields) ==
    {r \in {GoodRow(fields), BadRow(format, fields)} : r # <<>>}

SeqsUpTo(S, n) == UNION {[1..k -> S] : k \in 0..n}

h_all == <<c_Date, c_Channel, c_Campaign, c_Spend>>
h_case == <<c_date, c_CHANNEL, c_campaign, c_SPEND>>
h_noSpend == <<c_Date, c_Channel, c_Campaign>>
h_costFirst == <<c_Date, c_Cost, c_Channel, c_Campaign, c_Spend>>
h_costLast == <<c_Channel, c_Spend, c_AdCost, c_Campaign, c_Date>>
h_two == <<c_Channel, c_Cost>>

\* A layout: how the file is declared and stored, what it holds
Layout(format, mimetype, path, fields) ==
    [format |-> format, mimetype |-> mimetype, path |-> path, fields |-> fields]

\* The layouts of the files with few rows, and of the files with many
WideLayouts ==
    {Layout("csv", m_csv, p_csv, h_all),
     Layout("csv", m_csv, p_csv, h_costFirst),
     Layout("workbook", m_xlsx, p_xlsx, h_all)}

Layouts ==
    {Layout("csv", m_csv, p_csv, h) :
        h \in {h_all, h_case, h_noSpend, h_costFirst, h_costLast, h_two}}
    \cup {Layout("workbook", m_xlsx, p_xlsx, h) : h \in {h_all, h_costFirst}}
    \cup {Layout("workbook", m_xls, p_xls, h_all)}

\* req.file as saved by the upload route, with the content at its path
FileOf(layout, rows) ==
    [mimetype |-> layout.mimetype,
     path |-> layout.path,
     content |-> [format |-> layout.format, fields |-> layout.fields, rows |-> rows]]

WideFiles ==
    UNION {{FileOf(l, rows) :
               rows \in SeqsUpTo(RichRows(l.format, l.fields), MaxWideRows)} :
           l \in WideLayouts}

LongFiles ==
    UNION {{FileOf(l, rows) :
               rows \in SeqsUpTo(FillerRows(l.format, l.fields), MaxRows)} :
           l \in Layouts}

\* An empty text file; a workbook that cannot be opened; files the upload
\* filter accepts whose declared type and extension select no parser
f_empty == FileOf(Layout("csv", m_csv, p_csv, <<>>), <<>>)
f_protected == FileOf(Layout("protected", m_xlsx, p_xlsx, <<>>), <<>>)
f_csvAsExcel == FileOf(Layout("csv", m_xls, p_csv, h_all), <<GoodRow(h_all)>>)
f_upperExt == FileOf(Layout("workbook", m_octet, p_XLSX, h_all), <<GoodRow(h_all)>>)

OtherFiles == {f_empty, f_protected, f_csvAsExcel, f_upperExt}

GeneratedFiles == WideFiles \cup LongFiles \cup OtherFiles

\* The files uploaded in the specification of the whole server
f_good == FileOf(Layout("csv", m_csv, p_csv, h_all), <<GoodRow(h_all)>>)
f_badRow ==
    FileOf(Layout("csv", m_csv, p_csv, h_all), <<GoodRow(h_all), BadRow("csv", h_all)>>)
f_noSpend == FileOf(Layout("csv", m_csv, p_csv, h_noSpend), <<GoodRow(h_noSpend)>>)

ServerFiles == {f_good, f_badRow, f_noSpend, f_protected}

\* The files a user of the page uploads
ClientFiles == {f_good, f_badRow, f_protected}

\* The bodies posted to /api/onboarding/step
StepBodies ==
    {[step |-> "upload", data |-> [uploadMethod |-> "file"]],
     [step |-> "analyze", data |-> [dataStatus |-> "success"]]}

----------------------------------------------------------------------------
(* Specifications *)

Init ==
    /\ users = InitialUsers
    /\ onboardingData = <<>>
    /\ uploadedFiles = <<>>
    /\ currentFileId = 1
    /\ now = 0
    /\ lastOp = "none"
    /\ response = NoResponse
    /\ prevResponse = NoResponse
    /\ analyzedId = 0
    /\ currentStep = 0
    /\ clientData = NullData
    /\ uploadedHere = FALSE
    /\ analysisStatus = "unmounted"
    /\ analyzePending = FALSE
    /\ orphans = 0
    /\ primaryKpi = Null
    /\ secondaryKpis = <<>>
    /\ integrations = <<>>
    /\ currentIntegrationId = 1
    /\ result = NoResult
    /\ calls = <<>>

\* The requests of the server specifications come from no page
ClockTick == Tick /\ UNCHANGED <<clientVars, objectivesVars, storeVars>>

UploadServerFile ==
    /\ \E f \in ServerFiles : UploadFile(f)
    /\ UNCHANGED <<clientVars, objectivesVars, storeVars>>

AnalyzeRequest == AnalyzeData /\ UNCHANGED <<clientVars, objectivesVars, storeVars>>

SaveStepBody ==
    /\ \E b \in StepBodies : SaveStep(b.step, b.data)
    /\ UNCHANGED <<clientVars, objectivesVars, storeVars>>

Next ==
    \/ ClockTick
    \/ UploadServerFile
    \/ AnalyzeRequest
    \/ SaveStepBody

Spec == Init /\ [][Next]_vars

\* One upload of any generated file, then analyses of it
UploadGeneratedFile ==
    /\ Len(uploadedFiles) = 0
    /\ \E f \in GeneratedFiles : UploadFile(f)
    /\ UNCHANGED <<clientVars, objectivesVars, storeVars>>

NextValidate ==
    \/ UploadGeneratedFile
    \/ AnalyzeRequest

SpecValidate == Init /\ [][NextValidate]_vars

\* The page driven by a user: steps forward and back, uploads on the upload
\* step, and the answers to the analyze requests.  Every save request is
\* answered, but that of the welcome step, which fails before it is sent
UserNext ==
    /\ \E data \in StepPayloads(currentStep) :
           \E sent \in (IF currentStep = 0 THEN BOOLEAN ELSE {TRUE}) :
               handleNext(data, sent)
    /\ UNCHANGED <<objectivesVars, storeVars>>

UserUpload == \E f \in ClientFiles : ClientUpload(f)

NextClient ==
    \/ ClockTick
    \/ UserNext
    \/ handlePrevious
    \/ UserUpload
    \/ AnalyzeSettled
    \/ OrphanSettled

SpecClient == Init /\ [][NextClient]_vars

\* The whole wizard at one instant of the clock: the save request of any
\* step may fail on the way, the progress query is answered, the page is
\* opened anew, and the review step completes the onboarding
UserNextOrFail ==
    /\ \E data \in StepPayloads(currentStep) :
           \E sent \in BOOLEAN : handleNext(data, sent)
    /\ UNCHANGED <<objectivesVars, storeVars>>

NextWizard ==
    \/ UserNextOrFail
    \/ handlePrevious
    \/ UserUpload
    \/ AnalyzeSettled
    \/ OrphanSettled
    \/ ProgressLoaded
    \/ PageLoad
    \/ BuildModel

SpecWizard == Init /\ [][NextWizard]_vars

\* Two or more saveOnboardingStep calls in progress at once.  A call runs
\* up to an await and goes on in a later turn of the event loop, other calls
\* running in between: await this.getUser(userId), then
\* await this.getOnboardingData(userId), then the rest without a pause

\* The bodies of the calls: the save of handleNext on the objectives step and
\* on the upload step, and the save of the analyze handler
RaceBodies ==
    {[step |-> "upload", data |-> [primaryKpi |-> "purchase", secondaryKpis |-> <<>>]],
     [step |-> "analyze", data |-> [uploadMethod |-> "manual"]],
     [step |-> "analyze", data |-> AnalysisStepData(ResponseFor(f_badRow))]}

\* The calls that returned
Returned == {i \in 1..Len(calls) : calls[i].pc = "returned"}

\* saveOnboardingStep is called: it calls getUser and waits
BeginCall(body) ==
    /\ Len(calls) < MaxCalls
    /\ calls' = Append(calls, [userId |-> DefaultUserId, step |-> body.step,
                               data |-> body.data, pc |-> "getUser",
                               read |-> NoRecord, readAt |-> 0, wroteAt |-> 0])
    /\ UNCHANGED <<serverVars, clientVars, objectivesVars, integrations,
                   currentIntegrationId, result>>

\* After await this.getUser: throws without the user, else calls
\* getOnboardingData, which reads the map, and waits.  readAt: the number of
\* calls that had written by then
AfterGetUser(i) ==
    /\ calls[i].pc = "getUser"
    /\ calls' = [calls EXCEPT ![i] =
                    IF ~ UserExists(calls[i].userId)
                    THEN [@ EXCEPT !.pc = "thrown"]
                    ELSE [@ EXCEPT !.pc = "getOnboardingData",
                                   !.read = IF HasOnboardingData(calls[i].userId)
                                            THEN getOnboardingData(calls[i].userId)
                                            ELSE NoRecord,
                                   !.readAt = Cardinality(Returned)]]
    /\ UNCHANGED <<serverVars, clientVars, objectivesVars, integrations,
                   currentIntegrationId, result>>

\* After await this.getOnboardingData: builds the record and stores it under
\* its id.  wroteAt: the place of the write among the writes
AfterGetOnboardingData(i) ==
    /\ calls[i].pc = "getOnboardingData"
    /\ LET updatedData == UpdatedFromRead(calls[i].read, calls[i].userId, calls[i].step,
                                          calls[i].data)
       IN onboardingData' = MapSet(onboardingData, updatedData.id, updatedData)
    /\ calls' = [calls EXCEPT ![i] = [@ EXCEPT !.pc = "returned",
                                               !.wroteAt = Cardinality(Returned) + 1]]
    /\ lastOp' = "step"
    /\ UNCHANGED <<users, uploadedFiles, currentFileId, now, response, prevResponse,
                   analyzedId, clientVars, objectivesVars, integrations,
                   currentIntegrationId, result>>

CallBegins == \E body \in RaceBodies : BeginCall(body)

CallReads == \E i \in 1..Len(calls) : AfterGetUser(i)

CallWrites == \E i \in 1..Len(calls) : AfterGetOnboardingData(i)

NextRace ==
    \/ CallBegins
    \/ CallReads
    \/ CallWrites

SpecRace == Init /\ [][NextRace]_vars

\* The methods of MemStorage called one after the other, for any user id and
\* with any answers, those that carry an id, a userId or completed included

UserIds == 1..MaxUsers

StoreBodies ==
    {[step |-> "upload", data |-> [primaryKpi |-> "purchase"]],
     [step |-> "upload", data |-> [id |-> 2]],
     [step |-> "upload", data |-> [userId |-> 2]],
     [step |-> "review", data |-> [completed |-> FALSE]]}

\* What a call returned (of a record, its id: the record is the one stored
\* under it), or the message of what it threw
Returns(op, userId, value) ==
    [op |-> op, userId |-> userId, threw |-> Null, value |-> value]

Throws(op, userId, message) ==
    [op |-> op, userId |-> userId, threw |-> message, value |-> Null]

StoreCreateUser ==
    /\ Len(users) < MaxUsers
    /\ users' = createUser([username |-> "user", password |-> "password"])
    /\ UNCHANGED <<onboardingData, uploadedFiles, currentFileId, now, lastOp, response,
                   prevResponse, analyzedId, clientVars, objectivesVars, storeVars>>

StoreSaveStep(userId, body) ==
    /\ Len(saveOnboardingStep(userId, body.step, body.data)) <= MaxRecords
    /\ onboardingData' = saveOnboardingStep(userId, body.step, body.data)
    /\ result' = IF saveOnboardingStepThrows(userId)
                 THEN Throws("saveOnboardingStep", userId, "User not found")
                 ELSE Returns("saveOnboardingStep", userId,
                              UpdatedOnboardingData(userId, body.step, body.data).id)
    /\ lastOp' = "step"
    /\ UNCHANGED <<users, uploadedFiles, currentFileId, now, response, prevResponse,
                   analyzedId, clientVars, objectivesVars, integrations,
                   currentIntegrationId, calls>>

StoreComplete(userId) ==
    /\ onboardingData' = completeOnboarding(userId)
    /\ result' = IF completeOnboardingThrows(userId)
                 THEN Throws("completeOnboarding", userId,
                             "Onboarding data not found for user")
                 ELSE Returns("completeOnboarding", userId,
                              CompletedOnboardingData(userId).id)
    /\ lastOp' = "complete"
    /\ UNCHANGED <<users, uploadedFiles, currentFileId, now, response, prevResponse,
                   analyzedId, clientVars, objectivesVars, integrations,
                   currentIntegrationId, calls>>

StoreSaves == \E userId \in UserIds : \E body \in StoreBodies : StoreSaveStep(userId, body)

StoreCompletes == \E userId \in UserIds : StoreComplete(userId)

NextStore ==
    \/ ClockTick
    \/ StoreCreateUser
    \/ StoreSaves
    \/ StoreCompletes

SpecStore == Init /\ [][NextStore]_vars

\* The objectives step: the user gets to it from the welcome step, selects
\* and toggles KPIs, and continues
WelcomeNext == currentStep = 0 /\ UserNextOrFail

SelectPrimary == \E kpiId \in PrimaryKpiIds : handlePrimaryKpiSelect(kpiId)

ToggleSecondary == \E kpiId \in SecondaryKpiIds : handleSecondaryKpiToggle(kpiId)

NextObjectives ==
    \/ WelcomeNext
    \/ SelectPrimary
    \/ ToggleSecondary
    \/ handleContinue

SpecObjectives == Init /\ [][NextObjectives]_vars

\* The integrations of MemStorage under calls of its methods, for two users.
\* The integration of a call is the object of the request: it may lack a
\* status and may carry an id or a userId
IntegrationUserIds == {1, 2}

IntegrationPayloads ==
    {[type |-> "google-ads", status |-> "connected"],
     [type |-> "facebook-ads"],
     [type |-> "google-ads", status |-> "connected", id |-> 1],
     [type |-> "tiktok-ads", status |-> "connected", userId |-> 2]}

IntegrationIds == 1..MaxIntegrations

StoreSaveIntegration(userId, integration) ==
    /\ Len(integrations) < MaxIntegrations
    /\ integrations' = MapSet(integrations, currentIntegrationId,
                              NewIntegration(userId, integration))
    /\ currentIntegrationId' = currentIntegrationId + 1
    /\ result' = Returns("saveIntegration", userId, currentIntegrationId)
    /\ UNCHANGED <<serverVars, clientVars, objectivesVars, calls>>

StoreDisconnect(userId, integrationId) ==
    /\ integrations' = disconnectIntegration(userId, integrationId)
    /\ result' = Returns("disconnectIntegration", userId,
                         ~ disconnectIntegrationRefuses(userId, integrationId))
    /\ UNCHANGED <<serverVars, clientVars, objectivesVars, currentIntegrationId, calls>>

IntegrationSaves ==
    \E userId \in IntegrationUserIds : \E integration \in IntegrationPayloads :
        StoreSaveIntegration(userId, integration)

IntegrationDisconnects ==
    \E userId \in IntegrationUserIds : \E integrationId \in IntegrationIds :
        StoreDisconnect(userId, integrationId)

NextIntegrations ==
    \/ ClockTick
    \/ IntegrationSaves
    \/ IntegrationDisconnects

SpecIntegrations == Init /\ [][NextIntegrations]_vars

----------------------------------------------------------------------------
(* Vocabulary of the properties *)

\* The latest analyze request read a file, and response is its answer
Analyzed == analyzedId # 0

AnalyzedFile == MapGet(uploadedFiles, analyzedId)

ParsedRows == ParseFile(AnalyzedFile).parsedData
ParsedColumns == ParseFile(AnalyzedFile).columns
ParseThrew == ParseFile(AnalyzedFile).threw

RequiredNames == {s_date, s_channel, s_campaign, s_spend}

\* The required names no column of the file has, letter case aside
LackedNames ==
    {r \in RequiredNames :
        \A i \in 1..Len(ParsedColumns) : toLowerCase(ParsedColumns[i]) # r}

RowLevelMessages ==
    {<<"Missing date value">>, <<"Missing spend value">>,
     <<"Invalid spend format (must be numeric)">>,
     <<"Channel name contains special characters">>}

SpendMessages ==
    {<<"Missing spend value">>, <<"Invalid spend format (must be numeric)">>}

\* The errors of the response (none when it carries no list)
ResponseErrors == IF "errors" \in DOMAIN response THEN response.errors ELSE <<>>

\* The errors of the response about the row at zero-based index i
ErrorsOfRow(i) == SelectSeq(ResponseErrors, LAMBDA e : e.row = i + 2)

\* The onboarding record of the one user
Record == getOnboardingData(DefaultUserId)

----------------------------------------------------------------------------
(* C1: a file whose column set lacks required columns gets status "error",
   exactly one error per lacked column with row 0 and the column's name,
   and no error of a row-level check, whatever its rows hold. *)
C1_MissingColumnsShortCircuit ==
    (Analyzed /\ ~ ParseThrew /\ LackedNames # {}) =>
        /\ response.status = "error"
        /\ "errors" \in DOMAIN response
        /\ Len(response.errors) = Cardinality(LackedNames)
        /\ {e.column : e \in {response.errors[i] : i \in 1..Len(response.errors)}}
              = LackedNames
        /\ \A i \in 1..Len(response.errors) :
              /\ response.errors[i].row = 0
              /\ response.errors[i].message \notin RowLevelMessages

\* A file with two of the required columns missing and a row whose channel
\* has special characters was analyzed
C1_Witness ==
    /\ Analyzed
    /\ ~ ParseThrew
    /\ Cardinality(LackedNames) >= 2
    /\ \E i \in 1..Len(ParsedRows) :
          ChannelValue(ParsedRows[i]).t = "string"
          /\ HasSpecialChar(ChannelValue(ParsedRows[i]).s)
    /\ "errors" \in DOMAIN response
    /\ Len(response.errors) >= 2

(* C2: a response that carries a status has status "error" exactly when it
   carries a non-empty errors list, and "success" exactly when it carries
   none. *)
C2_StatusIffErrors ==
    ("status" \in DOMAIN response) =>
        /\ (response.status = "error") <=>
              ("errors" \in DOMAIN response /\ Len(response.errors) > 0)
        /\ (response.status = "success") <=> ("errors" \notin DOMAIN response)

\* A number written plainly: an optional sign, digits, at most one point
PlainNumber(s) ==
    LET u == IF s # <<>> /\ s[1] \in {"+", "-"} THEN Tail(s) ELSE s
    IN /\ AllIn(u, DigitChars \cup {"."})
       /\ \E i \in 1..Len(u) : u[i] \in DigitChars
       /\ Cardinality({i \in 1..Len(u) : u[i] = "."}) <= 1

\* The file of the latest analysis has every required column
AllColumnsPresent == Analyzed /\ ~ ParseThrew /\ LackedNames = {}

(* C3: in a file with every required column, a non-empty spend value that
   is a plain number once '$' and ',' are removed gives the row no spend
   error, and one whose remainder is not a number gives the row "Invalid
   spend format (must be numeric)". *)
C3_SpendNumericIffNoError ==
    AllColumnsPresent =>
        \A i \in 1..Len(ParsedRows) :
            LET keys == KeysMatching(ParsedRows[i], s_spend)
                text == ValueToString(RowGet(ParsedRows[i], keys[1]))
                errs == ErrorsOfRow(i - 1)
            IN (keys # <<>> /\ text # <<>>) =>
                  IF PlainNumber(StripDollarComma(text))
                  THEN \A j \in 1..Len(errs) : errs[j].message \notin SpendMessages
                  ELSE \E j \in 1..Len(errs) :
                          errs[j].message = <<"Invalid spend format (must be numeric)">>

ClaimChannelChars == LowerChars \cup UpperChars \cup DigitChars \cup {" ", "_", "-"}

ChannelErrorsOfRow(i) ==
    SelectSeq(ErrorsOfRow(i),
              LAMBDA e : e.message = <<"Channel name contains special characters">>)

(* C4: in a file with every required column, a text channel value made only
   of letters, digits, space, '_' and '-' gives the row no channel error,
   and one with any other character gives it exactly one, naming the row
   and the channel column as the file spells it. *)
C4_ChannelCharset ==
    AllColumnsPresent =>
        \A i \in 1..Len(ParsedRows) :
            LET keys == KeysMatching(ParsedRows[i], s_channel)
                value == RowGet(ParsedRows[i], keys[1])
                errs == ChannelErrorsOfRow(i - 1)
            IN (keys # <<>> /\ value.t = "string") =>
                  IF AllIn(value.s, ClaimChannelChars)
                  THEN errs = <<>>
                  ELSE Len(errs) = 1 /\ errs[1].column = keys[1]

\* A file was analyzed in which one row's channel has a space, '_' and '-'
\* and gets no error, and another row's channel "Search!!" gets one
C4_Witness ==
    /\ AllColumnsPresent
    /\ \E i \in 1..Len(ParsedRows) :
          /\ RowGet(ParsedRows[i], c_Channel) = v_PaidSocial
          /\ ChannelErrorsOfRow(i - 1) = <<>>
    /\ \E i \in 1..Len(ParsedRows) :
          /\ RowGet(ParsedRows[i], c_Channel) = v_SearchBang
          /\ Len(ChannelErrorsOfRow(i - 1)) = 1

\* The preview is the first min(5, row count) rows of the file, in order
PreviewIsFirstRows ==
    /\ "preview" \in DOMAIN response
    /\ Len(response.preview) = IF Len(ParsedRows) < 5 THEN Len(ParsedRows) ELSE 5
    /\ \A i \in 1..Len(response.preview) : response.preview[i] = ParsedRows[i]

(* C5 as stated: every result of an analysis, also the result for missing
   required columns, holds a preview of the first min(5, row count) rows. *)
C5_PreviewInEveryResult ==
    (Analyzed /\ ~ ParseThrew) => PreviewIsFirstRows

(* C5: the result for a file with every required column, status "success"
   or "error", holds a preview of the first min(5, row count) rows in order;
   the result for missing required columns holds no preview. *)
C5_PreviewOnRowLevelPath ==
    (Analyzed /\ ~ ParseThrew) =>
        IF LackedNames = {} THEN PreviewIsFirstRows
        ELSE "preview" \notin DOMAIN response

\* A file of more than five rows with row-level errors was analyzed and the
\* preview holds five rows
C5_Witness ==
    /\ AllColumnsPresent
    /\ Len(ParsedRows) > 5
    /\ response.status = "error"
    /\ Len(response.preview) = 5

\* The non-empty values under the channel column of the rows
NonEmptyChannelValues(rows) ==
    {RowGet(rows[i], KeysMatching(rows[i], s_channel)[1]) :
        i \in {j \in 1..Len(rows) :
                  /\ KeysMatching(rows[j], s_channel) # <<>>
                  /\ RowGet(rows[j], KeysMatching(rows[j], s_channel)[1]) # v_empty}}

\* The analyzed file with rows k and k + 1 exchanged
WithRowsSwapped(k) ==
    [AnalyzedFile EXCEPT !.content.rows =
        [i \in 1..Len(@) |-> IF i = k THEN @[k + 1] ELSE IF i = k + 1 THEN @[k] ELSE @[i]]]

(* C6: summary.channels is the number of distinct non-empty values under
   the channel column over all rows, and exchanging rows of the file leaves
   it the same. *)
C6_ChannelsDistinctNonEmpty ==
    (Analyzed /\ "summary" \in DOMAIN response) =>
        /\ response.summary.channels = Cardinality(NonEmptyChannelValues(ParsedRows))
        /\ \A k \in 1..(Len(AnalyzedFile.content.rows) - 1) :
              /\ "summary" \in DOMAIN ResponseFor(WithRowsSwapped(k))
              /\ ResponseFor(WithRowsSwapped(k)).summary.channels
                    = response.summary.channels

(* C7: two analyses with no upload between them give the same response,
   whatever the onboarding record held. *)
C7_AnalyzeIdempotent ==
    (prevResponse # NoResponse) => response = prevResponse

\* A file with row errors has just been analyzed a second time since its
\* upload, the record holding the data of a step save
C7_Witness ==
    /\ prevResponse # NoResponse
    /\ lastOp = "analyze"
    /\ "errors" \in DOMAIN response
    /\ HasOnboardingData(DefaultUserId)
    /\ Record.uploadMethod = "file"

(* C8: after an analysis that returns a result with status success or
   error, the stored record's dataStatus is the returned status. *)
C8_DataStatusFollowsResult ==
    (lastOp = "analyze" /\ Analyzed /\ ~ ParseThrew) =>
        /\ HasOnboardingData(DefaultUserId)
        /\ Record.dataStatus = response.status

(* C9: with no uploaded file the analyze request answers success = false
   with a message, without status, errors or preview, reads no file and
   leaves the store of onboarding records as it was. *)
C9_NoFileFailsEarly ==
    [][(lastOp' = "analyze" /\ uploadedFiles = <<>>) =>
          /\ DOMAIN response' = {"success", "message"}
          /\ response'.success = FALSE
          /\ analyzedId' = 0
          /\ onboardingData' = onboardingData]_vars

\* The analyze request ran with no file while a record was stored
C9_Witness ==
    /\ lastOp = "analyze"
    /\ uploadedFiles = <<>>
    /\ HasOnboardingData(DefaultUserId)
    /\ "success" \in DOMAIN response

\* The greatest id among the uploaded files
LatestFileId ==
    CHOOSE id \in {uploadedFiles[i].k : i \in 1..Len(uploadedFiles)} :
        \A i \in 1..Len(uploadedFiles) : uploadedFiles[i].k <= id

(* C10: the analyzed file is the one uploaded last, the file with the
   greatest id, also when uploads got equal creation times. *)
C10_AnalyzesLatestUpload ==
    (lastOp = "analyze" /\ uploadedFiles # <<>>) => analyzedId = LatestFileId

\* The analyzed file is one no parser decodes: a workbook that cannot be
\* opened, or a file for which the parse step takes neither branch
Undecodable ==
    \/ AnalyzedFile.content.format = "protected"
    \/ Backend(AnalyzedFile) = "none"

(* C11: when the analyzed file cannot be decoded, the response is a
   validation result with status "error" and exactly the four
   missing-column errors date, channel, campaign, spend, and not a failure
   with a message. *)
C11_UndecodableGivesMissingColumns ==
    (Analyzed /\ Undecodable) =>
        /\ response.status = "error"
        /\ "errors" \in DOMAIN response
        /\ "message" \notin DOMAIN response
        /\ [i \in 1..Len(response.errors) |-> response.errors[i].column]
              = <<s_date, s_channel, s_campaign, s_spend>>
        /\ \A i \in 1..Len(response.errors) : response.errors[i].row = 0

\* The fields of the record an analysis may change
AnalysisFields == {"dataStatus", "step", "updatedAt"}

(* C14: an analyze request changes, of the stored record, only dataStatus
   (and the step marker and the update time): no other field is added or
   changed, so the errors, preview, summary and columns are not stored. *)
C14_AnalyzeStoresOnlyStatus ==
    [][(lastOp' = "analyze" /\ onboardingData' # onboardingData) =>
          LET before == IF HasOnboardingData(DefaultUserId) THEN Record
                        ELSE NewOnboardingData(DefaultUserId, "analyze")
              after == Record'
          IN \A f \in (DOMAIN after) \ AnalysisFields :
                f \in DOMAIN before /\ after[f] = before[f]]_vars

\* The required names for which the response carries a missing-column error
ReportedMissing ==
    {r \in RequiredNames :
        \E i \in 1..Len(ResponseErrors) :
            ResponseErrors[i].row = 0 /\ ResponseErrors[i].column = r}

\* The column the row-level check of the row resolves for the required name
\* (<<>>: none)
ResolvedColumn(row, r) ==
    LET found == IF r = s_spend THEN SpendKeys(row) ELSE KeysMatching(row, r)
    IN IF found = <<>> THEN <<>> ELSE found[1]

(* C15: a required column is reported missing exactly when no column of the
   file has that name, letter case aside; and when none is missing, the
   row-level check of every row resolves each required name to a column of
   that name. *)
C15_ColumnMatching ==
    (Analyzed /\ ~ ParseThrew) =>
        /\ ReportedMissing = LackedNames
        /\ LackedNames = {} =>
              \A i \in 1..Len(ParsedRows) : \A r \in RequiredNames :
                  toLowerCase(ResolvedColumn(ParsedRows[i], r)) = r

(* C16: every file the upload filter accepts is parsed by a backend: the
   delimited-text one for the extension .csv, the spreadsheet one for .xlsx
   and .xls, whatever the letter case of the extension and the declared
   media type. *)
C16_AcceptedFileHasBackend ==
    (Analyzed /\ fileFilter(AnalyzedFile)) =>
        LET ext == toLowerCase(extname(AnalyzedFile.path))
        IN /\ ext = s_dot_csv => Backend(AnalyzedFile) = "csv"
           /\ ext \in {s_dot_xlsx, s_dot_xls} => Backend(AnalyzedFile) = "spreadsheet"

\* The place of a row-level message in the order of the checks of a row
CheckRank(message) ==
    CASE message = <<"Missing date value">> -> 1
      [] message \in SpendMessages -> 2
      [] OTHER -> 3

(* C17: with every required column present, the error list is in ascending
   row order and, within a row, in the order date, spend, channel with at
   most one error of each check; every row contributes its errors whatever
   the rows before it held, so equal messages of different rows all
   appear. *)
C17_ErrorsInRowAndCheckOrder ==
    AllColumnsPresent =>
        /\ \A i \in 1..(Len(ResponseErrors) - 1) :
              \/ ResponseErrors[i].row < ResponseErrors[i + 1].row
              \/ /\ ResponseErrors[i].row = ResponseErrors[i + 1].row
                 /\ CheckRank(ResponseErrors[i].message)
                       < CheckRank(ResponseErrors[i + 1].message)
        /\ \A i \in 1..Len(ParsedRows) :
              ErrorsOfRow(i - 1) = RowErrors(ParsedRows[i], i - 1)

\* A file was analyzed whose first two rows each get a date, a spend and a
\* channel error: six errors, the messages of the first row again in the
\* second
C17_Witness ==
    /\ AllColumnsPresent
    /\ Len(ParsedRows) >= 2
    /\ Len(ErrorsOfRow(0)) = 3
    /\ Len(ErrorsOfRow(1)) = 3
    /\ [i \in 1..3 |-> ErrorsOfRow(0)[i].message]
          = [i \in 1..3 |-> ErrorsOfRow(1)[i].message]
    /\ Len(ResponseErrors) >= 6

\* The value is one the message complains about
MessageFitsValue(message, value) ==
    CASE message = <<"Missing date value">> -> ~ Truthy(value)
      [] message = <<"Missing spend value">> -> value = v_empty
      [] message = <<"Invalid spend format (must be numeric)">> ->
            value # v_empty /\ ~ PlainNumber(StripDollarComma(ValueToString(value)))
      [] OTHER -> value.t = "string" /\ ~ AllIn(value.s, ClaimChannelChars)

(* C18: a row-level error carries the zero-based index of its row plus 2:
   its row is between 2 and the row count plus 1 and the row it points to
   holds, under the error's column, the value the message complains about;
   an error with row 0 is a missing-column error; no response holds both
   kinds. *)
C18_RowNumbers ==
    (Analyzed /\ ~ ParseThrew) =>
        /\ \A i \in 1..Len(ResponseErrors) :
              LET e == ResponseErrors[i]
              IN IF e.message \in RowLevelMessages
                 THEN /\ 2 <= e.row
                      /\ e.row <= Len(ParsedRows) + 1
                      /\ SeqIncludes(ObjectKeys(ParsedRows[e.row - 1]), e.column)
                      /\ MessageFitsValue(e.message,
                                          RowGet(ParsedRows[e.row - 1], e.column))
                 ELSE e.row = 0 /\ e.column \in LackedNames
        /\ ~ /\ \E i \in 1..Len(ResponseErrors) : ResponseErrors[i].row = 0
             /\ \E i \in 1..Len(ResponseErrors) : ResponseErrors[i].row # 0

\* A file of six rows was analyzed whose only errors are those of its last
\* row, carrying row 7
C18_Witness ==
    /\ AllColumnsPresent
    /\ Len(ParsedRows) = 6
    /\ ResponseErrors # <<>>
    /\ \A i \in 1..Len(ResponseErrors) : ResponseErrors[i].row = 7

\* The errors of the response about the row at index i with the message
ErrorsOfRowWith(i, message) ==
    SelectSeq(ErrorsOfRow(i), LAMBDA e : e.message = message)

\* The value of the row under its column of the name, letter case aside
\* (undefined when the row has no entry under it)
ValueUnder(row, name) ==
    IF KeysMatching(row, name) = <<>> THEN Undefined
    ELSE RowGet(row, KeysMatching(row, name)[1])

(* C19: with every required column present, a row whose date value is empty
   or absent, also a row with no entry under the date column, gets exactly
   one "Missing date value" error, and a row with a non-empty date value
   gets none. *)
C19_MissingDate ==
    AllColumnsPresent =>
        \A i \in 1..Len(ParsedRows) :
            LET date == ValueUnder(ParsedRows[i], s_date)
            IN Len(ErrorsOfRowWith(i - 1, <<"Missing date value">>))
                  = IF date = Undefined \/ date = v_empty THEN 1 ELSE 0

(* C20: with every required column present, a row whose spend value is
   empty or absent gets exactly one "Missing spend value" error and no
   "Invalid spend format (must be numeric)" error, and no row gets both
   messages. *)
C20_MissingSpend ==
    AllColumnsPresent =>
        \A i \in 1..Len(ParsedRows) :
            LET spend == ValueUnder(ParsedRows[i], s_spend)
                missing == ErrorsOfRowWith(i - 1, <<"Missing spend value">>)
                invalid == ErrorsOfRowWith(i - 1,
                               <<"Invalid spend format (must be numeric)">>)
            IN /\ (spend = Undefined \/ spend = v_empty) =>
                      Len(missing) = 1 /\ invalid = <<>>
               /\ ~ (missing # <<>> /\ invalid # <<>>)

\* The analyze request about to be answered cannot run: no file is
\* uploaded, or the file cannot be read
FailsToRun ==
    LET files == getUploadedFiles(DefaultUserId)
    IN Len(files) = 0 \/ ParseFile(PickFile(files)).threw

\* The step is the answer to the request of the AnalyzeStep on the page
AnswersMountedStep == analyzePending /\ ~ analyzePending' /\ currentStep' = currentStep

\* The step is the answer to a request whose AnalyzeStep is gone
AnswersOrphan == orphans' < orphans

(* C12: an analyze request that cannot run (no uploaded file, file read
   failure) is never answered with a body whose status is "error", the
   shape of a validation result, and never leaves the analyze step of the
   page in the status 'error' that a validation error gives. *)
C12_FailureDistinguishable ==
    [][(FailsToRun /\ (AnswersMountedStep \/ AnswersOrphan)) =>
          /\ ~ ("status" \in DOMAIN response' /\ response'.status = "error")
          /\ AnswersMountedStep => analysisStatus' # "error"]_vars

(* C13: when the user uploads a file on the upload step and moves on to the
   analyze step, whatever result the stage held before, the step is in
   'analyzing' with a new analyze request issued; and a result status shown
   on the analyze step is never older than the latest upload. *)
C13_ReuploadReanalyzes ==
    [][/\ (currentStep = UploadIndex /\ uploadedHere /\ currentStep' = AnalyzeIndex) =>
             analysisStatus' = "analyzing" /\ analyzePending'
       /\ (currentStep' = AnalyzeIndex /\ analysisStatus' \in {"success", "error"}) =>
             analyzedId' # 0]_vars

----------------------------------------------------------------------------
(* The wizard: status of the analyze step, completion, navigation *)

\* The answer of the step just taken is a validation result without errors
ResultWithoutErrors ==
    /\ "status" \in DOMAIN response'
    /\ response'.status = "success"
    /\ "errors" \notin DOMAIN response'

\* The answer of the step just taken is a validation result with errors, or
\* the request failed
ResultWithErrorsOrFailure ==
    \/ "errors" \in DOMAIN response' /\ Len(response'.errors) > 0
    \/ ~ ResponseOk(response')

(* C21: the status of the analyze step leaves 'analyzing' only to 'success'
   or 'error'; it becomes 'success' only from 'analyzing' on the answer of
   its request with a result without errors, and 'error' only from
   'analyzing' on an answer with errors or a failed request; and no answer
   of the server and no stored dataStatus is "analyzing". *)
C21_StatusTransitions ==
    [][/\ (analysisStatus = "analyzing" /\ analysisStatus' # "analyzing") =>
             analysisStatus' \in {"success", "error", "unmounted"}
       /\ (analysisStatus' = "success" /\ (analysisStatus # "success" \/ currentStep' # currentStep)) =>
             analysisStatus = "analyzing" /\ AnswersMountedStep /\ ResultWithoutErrors
       /\ (analysisStatus' = "error" /\ (analysisStatus # "error" \/ currentStep' # currentStep)) =>
             analysisStatus = "analyzing" /\ AnswersMountedStep /\ ResultWithErrorsOrFailure
       /\ "status" \in DOMAIN response' => response'.status # "analyzing"
       /\ HasOnboardingData(DefaultUserId)' =>
             getOnboardingData(DefaultUserId)'.dataStatus # "analyzing"]_vars

\* In the step just taken the record of the user became completed
BecomesCompleted ==
    /\ HasOnboardingData(DefaultUserId)'
    /\ getOnboardingData(DefaultUserId)'.completed = TRUE
    /\ getOnboardingData(DefaultUserId)'.step = "complete"
    /\ ~ (HasOnboardingData(DefaultUserId) /\ Record.completed = TRUE)

(* C22: the record of the user becomes completed (completed = true, step =
   "complete") only when its data stage is in success: never while its
   dataStatus is "error" or unset. *)
C22_CompletedOnlyFromSuccess ==
    [][BecomesCompleted =>
          HasOnboardingData(DefaultUserId) /\ Record.dataStatus = "success"]_vars

\* The step just taken is handleNext with a save that failed
NextWithFailedSave == \E data \in StepPayloads(currentStep) : handleNext(data, FALSE)

(* C24: handleNext moves to the next step only when the save of the step
   succeeded; when the save failed, currentStep is unchanged. *)
C24_AdvanceOnlyWhenSaved ==
    [][NextWithFailedSave => currentStep' = currentStep]_vars

\* The saved step of the record is no step of the wizard
SavedStepNotInWizard ==
    /\ HasOnboardingData(DefaultUserId)
    /\ findIndex(Record.step) = -1

(* C25: after any sequence of handleNext, handlePrevious and progress-load
   events, 0 <= currentStep <= 5; and a progress load whose saved step is no
   step of the wizard (such as "complete") leaves currentStep as it is. *)
C25_CurrentStepInRange ==
    /\ currentStep \in 0..(Len(steps) - 1)
    /\ ProgressStep(ProgressData, currentStep) \in 0..(Len(steps) - 1)
    /\ SavedStepNotInWizard => ProgressStep(ProgressData, currentStep) = currentStep

\* The onboarding was completed from the review step, so that the progress
\* query answers the step "complete" to the page opened after it
C25_Witness ==
    /\ SavedStepNotInWizard
    /\ Record.step = "complete"
    /\ lastOp = "complete"
    /\ currentStep = 0

----------------------------------------------------------------------------
(* Calls of saveOnboardingStep in progress at once *)

\* Call j stores its record in the step just taken
Writes(j) == calls[j].pc = "getOnboardingData" /\ calls'[j].pc = "returned"

\* Call i wrote between the read of call j and now
WroteSinceReadOf(i, j) ==
    /\ i # j
    /\ calls[i].pc = "returned"
    /\ calls[j].readAt < calls[i].wroteAt

(* C23: two saveOnboardingStep calls can interleave so that both read before
   either writes, and then the stored record lacks the fields written by
   one.  Whenever a call writes after another call that wrote since its
   read: if it had read a record, the record it stores holds, for every
   field only the other call named, the value read before the other's write;
   if it had read none (two first saves), it stores a second record and
   getOnboardingData goes on returning the first, without its fields. *)
C23_LostUpdate ==
    [][\A j \in 1..Len(calls) : Writes(j) =>
          \A i \in 1..Len(calls) : WroteSinceReadOf(i, j) =>
              IF calls[j].read = NoRecord
              THEN /\ Len(onboardingData') = Len(onboardingData) + 1
                   /\ getOnboardingData(DefaultUserId)' = getOnboardingData(DefaultUserId)
              ELSE \A f \in (DOMAIN calls[i].data) \ (DOMAIN calls[j].data) :
                       IF f \in DOMAIN calls[j].read
                       THEN getOnboardingData(DefaultUserId)'[f] = calls[j].read[f]
                       ELSE f \notin DOMAIN getOnboardingData(DefaultUserId)']_vars

\* A step save and the save of an analysis both read the record of the user
\* before either wrote; both returned, the analysis last, and the record
\* has no uploadMethod
C23_Witness ==
    \E i, j \in Returned :
        /\ calls[i].data = [uploadMethod |-> "manual"]
        /\ "dataStatus" \in DOMAIN calls[j].data
        /\ calls[i].read # NoRecord
        /\ calls[j].read = calls[i].read
        /\ calls[j].readAt < calls[i].wroteAt
        /\ calls[i].wroteAt < calls[j].wroteAt
        /\ calls[j].wroteAt = Cardinality(Returned)
        /\ Record.uploadMethod = Null
        /\ Record.dataStatus = "error"

----------------------------------------------------------------------------
(* The store of onboarding records under calls of its methods *)

\* The records of the user in the store
RecordsOf(userId) ==
    {i \in 1..Len(onboardingData) : onboardingData[i].v.userId = userId}

\* The latest call returned a record: the one stored under the id returned
LatestReturned == MapGet(onboardingData, result.value)

(* C26: after any sequence of saveOnboardingStep and completeOnboarding
   calls, with any step data, data that carries an id or a userId included,
   the store holds at most one record per user and getOnboardingData(userId)
   returns the record written by the latest save for that user. *)
C26_OneRecordPerUser ==
    /\ \A userId \in UserIds : Cardinality(RecordsOf(userId)) <= 1
    /\ (result # NoResult /\ result.threw = Null) =>
           /\ HasOnboardingData(result.userId)
           /\ getOnboardingData(result.userId) = LatestReturned

\* The fields saveOnboardingStep sets apart from those named in data
SetByEverySave == {"step", "updatedAt"}

\* The records stored under other ids than id are as they were
OthersUnchanged(id) ==
    /\ \A i \in 1..Len(onboardingData) :
           onboardingData[i].k # id =>
               /\ MapHas(onboardingData', onboardingData[i].k)
               /\ MapGet(onboardingData', onboardingData[i].k) = onboardingData[i].v
    /\ \A i \in 1..Len(onboardingData') :
           onboardingData'[i].k # id => MapHas(onboardingData, onboardingData'[i].k)

\* The call threw the message and the store is as it was
ThrewUnchanged(message) ==
    /\ result'.threw = message
    /\ onboardingData' = onboardingData

(* C27 as stated: saveOnboardingStep for an existing user sets step and the
   fields named in data and leaves every other field of the record of the
   user, and the records of the other users, unchanged; for an unknown user
   it throws "User not found" and leaves the store unchanged. *)
C27_SaveFrameAsStated ==
    [][\A userId \in UserIds : \A body \in StoreBodies :
          StoreSaveStep(userId, body) =>
              IF UserExists(userId)
              THEN /\ HasOnboardingData(userId)'
                   /\ getOnboardingData(userId)'.step = body.step
                   /\ \A f \in DOMAIN body.data :
                          getOnboardingData(userId)'[f] = body.data[f]
                   /\ HasOnboardingData(userId) =>
                          \A f \in (DOMAIN getOnboardingData(userId)) \
                                        (DOMAIN body.data \cup {"step"}) :
                              getOnboardingData(userId)'[f] = getOnboardingData(userId)[f]
                   /\ \A other \in UserIds \ {userId} :
                          {onboardingData'[i].v : i \in RecordsOf(other)'} =
                              {onboardingData[i].v : i \in RecordsOf(other)}
              ELSE ThrewUnchanged("User not found")]_vars

(* C27: saveOnboardingStep for an existing user stores and returns a record
   in which step, updatedAt and the fields named in data are set and every
   other field is as in the record of the user before the call, and leaves
   every record other than the one it stores unchanged; for an unknown user
   it throws "User not found" and leaves the store unchanged. *)
C27_SaveFrame ==
    [][\A userId \in UserIds : \A body \in StoreBodies :
          StoreSaveStep(userId, body) =>
              IF UserExists(userId)
              THEN /\ result'.threw = Null
                   /\ MapHas(onboardingData', result'.value)
                   /\ LatestReturned'.step = body.step
                   /\ LatestReturned'.updatedAt = now
                   /\ \A f \in DOMAIN body.data : LatestReturned'[f] = body.data[f]
                   /\ HasOnboardingData(userId) =>
                          /\ DOMAIN LatestReturned' =
                                 (DOMAIN getOnboardingData(userId)) \cup (DOMAIN body.data)
                          /\ \A f \in (DOMAIN getOnboardingData(userId)) \
                                        (DOMAIN body.data \cup SetByEverySave) :
                                 LatestReturned'[f] = getOnboardingData(userId)[f]
                   /\ OthersUnchanged(result'.value)
              ELSE ThrewUnchanged("User not found")]_vars

\* A save for a user with a record, at a later time than its creation, kept
\* the answer of an earlier save
C27_Witness ==
    /\ result # NoResult
    /\ result.op = "saveOnboardingStep"
    /\ result.threw = Null
    /\ LatestReturned.primaryKpi = "purchase"
    /\ LatestReturned.step = "review"
    /\ LatestReturned.updatedAt > LatestReturned.createdAt
    /\ Len(onboardingData) > 1

\* The fields that hold the answers of the wizard
AnswerFields ==
    {"primaryKpi", "secondaryKpis", "uploadMethod", "dataStatus", "externalFactors"}

\* completeOnboarding as the claim has it
CompleteAsStated(userId) ==
    StoreComplete(userId) =>
        IF HasOnboardingData(userId)
        THEN /\ result'.threw = Null
             /\ LatestReturned'.completed = TRUE
             /\ LatestReturned'.step = "complete"
             /\ \A f \in AnswerFields \cap DOMAIN getOnboardingData(userId) :
                    LatestReturned'[f] = getOnboardingData(userId)[f]
             /\ OthersUnchanged(result'.value)
        ELSE ThrewUnchanged("Onboarding data not found for user")

\* The save is one for a user whose record is completed, with data that does
\* not name completed
SaveOnCompleted(userId, body) ==
    /\ StoreSaveStep(userId, body)
    /\ UserExists(userId)
    /\ HasOnboardingData(userId)
    /\ getOnboardingData(userId).completed = TRUE
    /\ "completed" \notin DOMAIN body.data

(* C30 as stated: completeOnboarding throws and leaves the store unchanged
   when the user has no record; otherwise it sets completed = true and step
   = "complete" and changes no other answer field; and a completed record
   stays completed with step "complete" under every later saveOnboardingStep
   whose data does not name completed. *)
C30_CompletedStaysAsStated ==
    [][/\ \A userId \in UserIds : CompleteAsStated(userId)
       /\ \A userId \in UserIds : \A body \in StoreBodies :
              (SaveOnCompleted(userId, body) /\ getOnboardingData(userId).step = "complete") =>
                  /\ LatestReturned'.completed = TRUE
                  /\ LatestReturned'.step = "complete"]_vars

(* C30: completeOnboarding throws and leaves the store unchanged when the
   user has no record; otherwise it sets completed = true and step =
   "complete" and changes no other answer field; and the record a later
   saveOnboardingStep stores for a user whose record is completed, with data
   that does not name completed, is completed, with the step of that save. *)
C30_CompletedStays ==
    [][/\ \A userId \in UserIds : CompleteAsStated(userId)
       /\ \A userId \in UserIds : \A body \in StoreBodies :
              SaveOnCompleted(userId, body) =>
                  /\ LatestReturned'.completed = TRUE
                  /\ LatestReturned'.step = body.step]_vars

\* A record that was completed was saved again and is completed still, at
\* another step
C30_Witness ==
    /\ result # NoResult
    /\ result.op = "saveOnboardingStep"
    /\ result.threw = Null
    /\ LatestReturned.completed = TRUE
    /\ LatestReturned.step = "upload"

----------------------------------------------------------------------------
(* The objectives step *)

\* The KPIs of a selection
Selected(kpis) == {kpis[i] : i \in 1..Len(kpis)}

(* C28: after any sequence of toggles from the empty selection, the
   selection of secondary KPIs holds at most 3 KPIs and none twice; a toggle
   of a selected KPI removes it, a toggle of an unselected KPI adds it when
   fewer than 3 are selected and else changes nothing; and Continue hands
   data on only when a primary KPI is selected. *)
C28_SecondaryKpis ==
    [][/\ Len(secondaryKpis') <= 3
       /\ Cardinality(Selected(secondaryKpis')) = Len(secondaryKpis')
       /\ \A kpiId \in SecondaryKpiIds :
              handleSecondaryKpiToggle(kpiId) =>
                  Selected(secondaryKpis') =
                      IF kpiId \in Selected(secondaryKpis)
                      THEN Selected(secondaryKpis) \ {kpiId}
                      ELSE IF Len(secondaryKpis) < 3
                           THEN Selected(secondaryKpis) \cup {kpiId}
                           ELSE Selected(secondaryKpis)
       /\ (currentStep = ObjectivesIndex /\ currentStep' # currentStep) =>
              /\ primaryKpi # Null
              /\ \E sent \in BOOLEAN :
                     handleNext([primaryKpi |-> primaryKpi,
                                 secondaryKpis |-> secondaryKpis], sent)]_vars

\* Three secondary KPIs were selected, one of them after another was taken
\* out, and Continue handed them on with the primary KPI
C28_Witness ==
    /\ currentStep = ObjectivesIndex + 1
    /\ HasOnboardingData(DefaultUserId)
    /\ Record.primaryKpi = "sign_up"
    /\ Record.secondaryKpis = <<"search", "rating", "add_to_cart">>
    /\ secondaryKpis = Record.secondaryKpis

----------------------------------------------------------------------------
(* Integrations *)

\* The integration stored under the id is disconnected
Disconnected(integrationId) ==
    /\ MapHas(integrations, integrationId)
    /\ ~ NotDisconnected(MapGet(integrations, integrationId))

\* The integrations getUserIntegrations returns to the user
ReturnedTo(userId) ==
    {getUserIntegrations(userId)[i] : i \in 1..Len(getUserIntegrations(userId))}

\* The status apart, the integration under the id is as it was
SameButStatus(integrationId) ==
    LET before == MapGet(integrations, integrationId)
        after == MapGet(integrations', integrationId)
    IN /\ DOMAIN after = DOMAIN before \cup {"status"}
       /\ \A f \in DOMAIN before \ {"status"} : after[f] = before[f]

\* The integrations under the other ids are as they were, and none is added
OtherIntegrationsUnchanged(integrationId) ==
    /\ Len(integrations') = Len(integrations)
    /\ \A i \in 1..Len(integrations) :
           integrations[i].k # integrationId => integrations'[i] = integrations[i]

(* C29: disconnectIntegration(userId, integrationId) returns false and
   changes nothing when the integration does not exist or belongs to another
   user; when it returns true, only the status of that integration changes,
   to 'disconnected'; and from then on, whatever is saved or disconnected,
   the integration stays disconnected and no getUserIntegrations returns
   it. *)
C29_DisconnectIsFinal ==
    [][/\ \A userId \in IntegrationUserIds : \A integrationId \in IntegrationIds :
              StoreDisconnect(userId, integrationId) =>
                  IF \/ ~ MapHas(integrations, integrationId)
                     \/ MapGet(integrations, integrationId).userId # userId
                  THEN result'.value = FALSE /\ integrations' = integrations
                  ELSE /\ result'.value = TRUE
                       /\ Disconnected(integrationId)'
                       /\ SameButStatus(integrationId)
                       /\ OtherIntegrationsUnchanged(integrationId)
                       /\ MapGet(integrations', integrationId) \notin ReturnedTo(userId)'
       /\ \A integrationId \in IntegrationIds :
              Disconnected(integrationId) =>
                  /\ Disconnected(integrationId)'
                  /\ \A userId \in IntegrationUserIds :
                         MapGet(integrations', integrationId) \notin ReturnedTo(userId)']_vars

\* The first integration of user 1 was disconnected, a call for it by user 2
\* was refused, and another integration saved after it is returned to user 1
C29_Witness ==
    /\ Disconnected(1)
    /\ MapGet(integrations, 1).userId = 1
    /\ result = Returns("disconnectIntegration", 2, FALSE)
    /\ Len(getUserIntegrations(1)) = 1

====
